---- MODULE Spec2Model ----
(***************************************************************************)
(* WebScrapingTool (src/search_tool/Agent/scraping_tool.py): a fetch runs  *)
(* the Chromium path, the aiohttp path, or Chromium with aiohttp as the    *)
(* fallback, and formats what it got into one string.                      *)
(*                                                                         *)
(* Text is a sequence of one-character strings.  A fetch is cut at its     *)
(* await points: loader.load, transform_documents, session.get and         *)
(* response.text(); the code between two awaits is one action.             *)
(***************************************************************************)
EXTENDS Integers, Sequences, FiniteSets, TLC

\* ------------------------------------------------------------------ bounds
\* Longest page_content the Chromium path returns.
MaxLen == 3
\* Largest configured max_content_length.
MaxConfigured == 2
\* Most elements in an HTML body served to the aiohttp path.
MaxElems == 2
\* Most fetches of the one static page.
MaxRuns == 2
\* Most corpora the project holds at a time.
MaxCorpora == 2
\* Largest measured duration (hundredths of a second).
MaxDuration == 1

\* ------------------------------------------------------------------- data
Fetches == {"f1", "f2"}
Urls == {"https://example.org/"}
\* 'auto', 'chromium', 'aiohttp' and one string that is none of them.
Methods == {"auto", "chromium", "aiohttp", "selenium"}
Entries == {"_run", "_arun"}

Char == {"a", "b"}
SeqsUpTo(S, n) == UNION {[1..k -> S] : k \in 0..n}
PageContents == SeqsUpTo(Char, MaxLen)

\* HTML served to the aiohttp path: a sequence of elements, each a tag with
\* one text node.
Tags == {"script", "style", "nav", "footer", "header", "p", "div"}
NodeTexts == {<<"a">>, <<" ">>, <<" ", "b">>}
Elements == [tag : Tags, text : NodeTexts]
Bodies == SeqsUpTo(Elements, MaxElems)
Statuses == {200, 304, 404, 500}

\* str(e) of the exceptions the collaborators raise.
RenderError == "Error in AsyncChromiumLoader.load"
TransformError == "Error in BeautifulSoupTransformer.transform_documents"
ConnectionError == "Cannot connect to host"
TimeoutError == "TimeoutError"
PayloadError == "Response payload is not completed"
ResponseError(status) == IF status = 404 THEN "404, message='Not Found'"
                         ELSE "500, message='Internal Server Error'"
NoDocuments == "Chromium loader failed to get any documents."
NoTransformed == "BeautifulSoupTransformer failed to extract content."
UnknownMethod(method) == "Unknown method: " \o method

\* ------------------------------------------------------- pure functions
\* "\n\n... (content truncated)"
TruncationMarker ==
    <<"\n", "\n", ".", ".", ".", " ", "(", "c", "o", "n", "t", "e", "n", "t",
      " ", "t", "r", "u", "n", "c", "a", "t", "e", "d", ")">>

\* content[:n] for n >= 0
Prefix(content, n) == SubSeq(content, 1, IF n < Len(content) THEN n ELSE Len(content))

\* Truncate with >= for >: text of exactly the maximum gets the marker
Truncate_AtMaximum(content, max) ==
    IF Len(content) >= max THEN Prefix(content, max) \o TruncationMarker
    ELSE content

\* Truncate without the slice: the marker is appended to the whole text
Truncate_KeepsAll(content, max) ==
    IF Len(content) > max THEN content \o TruncationMarker ELSE content

\* lines 127-128
Truncate(content, max) ==
    IF Len(content) > max THEN Prefix(content, max) \o TruncationMarker
    ELSE content

Whitespace == {" ", "\n", "\t"}
RECURSIVE LStrip(_)
LStrip(s) == IF s # <<>> /\ Head(s) \in Whitespace THEN LStrip(Tail(s)) ELSE s
RECURSIVE RStrip(_)
RStrip(s) ==
    IF s # <<>> /\ s[Len(s)] \in Whitespace THEN RStrip(SubSeq(s, 1, Len(s) - 1))
    ELSE s
Strip(s) == RStrip(LStrip(s))

\* Decomposed without 'header'
Decomposed_HeaderKept == {"script", "style", "nav", "footer"}

\* line 89: the tags whose elements are decomposed
Decomposed == {"script", "style", "nav", "footer", "header"}

\* lines 88-91: the stripped, non-empty strings left after decompose(),
\* joined by the separator
RECURSIVE Join(_, _)
Join(strings, sep) ==
    IF strings = <<>> THEN <<>>
    ELSE IF Len(strings) = 1 THEN strings[1]
    ELSE strings[1] \o sep \o Join(Tail(strings), sep)
RECURSIVE Strings(_)
Strings(body) ==
    IF body = <<>> THEN <<>>
    ELSE LET e == Head(body)
             t == Strip(e.text)
         IN  IF e.tag \in Decomposed \/ t = <<>> THEN Strings(Tail(body))
             ELSE <<t>> \o Strings(Tail(body))
GetText(body) == Join(Strings(body), <<"\n">>)
\* What lines 88-91 can return: the text of some body
ExtractedTexts == {GetText(html_content) : html_content \in Bodies}

\* The body of the spec's scenario: <script>x</script><p>Hello</p>
ScenarioBody ==
    <<[tag |-> "script", text |-> <<"x">>],
      [tag |-> "p", text |-> <<"H", "e", "l", "l", "o">>]>>
\* The bodies a static page serves
Pages == Bodies \cup {ScenarioBody}

\* ParseSoup keeping the tree of the earlier call and adding to it
ParseSoup_ReusesTree(soup, html) == soup \o html

\* line 88: BeautifulSoup(html_content, 'html.parser') builds a new tree
ParseSoup(soup, html) == html

\* line 89: soup([...]), the places of the elements still to decompose
Found(soup) == {i \in DOMAIN soup : soup[i].tag \in Decomposed}

\* line 90: tag.decompose() takes the element at place i out of the tree
Decompose(soup, i) == SubSeq(soup, 1, i - 1) \o SubSeq(soup, i + 1, Len(soup))

\* line 91: get_text(separator='\n', strip=True) of the tree as it is
RECURSIVE StrippedStrings(_)
StrippedStrings(soup) ==
    IF soup = <<>> THEN <<>>
    ELSE LET t == Strip(Head(soup).text)
         IN  (IF t = <<>> THEN <<>> ELSE <<t>>) \o StrippedStrings(Tail(soup))
SoupText(soup) == Join(StrippedStrings(soup), <<"\n">>)

\* ------------------------------------------------------ returned strings
\* The f-strings of lines 126, 131-138 and 140, field by field; "head" is
\* the literal text a string starts with.
NoContentHead == "(x) No content extracted from "
ErrorHead == "(x) Web scraping error for "
SuccessHead == "\n**Website Scraped:** "
NoResult ==
    [head |-> "", url |-> "", method |-> "", duration |-> 0, length |-> 0,
     content |-> <<>>, detail |-> ""]
\* NoContentMessage worded as the error of line 140
NoContentMessage_AsError(url, used_method) ==
    [NoResult EXCEPT !.head = ErrorHead, !.url = url, !.method = used_method]

NoContentMessage(url, used_method) ==
    [NoResult EXCEPT !.head = NoContentHead, !.url = url, !.method = used_method]
ErrorMessage(url, e) ==
    [NoResult EXCEPT !.head = ErrorHead, !.url = url, !.detail = e]
SuccessBlock(url, used_method, duration, content) ==
    [NoResult EXCEPT !.head = SuccessHead, !.url = url, !.method = used_method,
                     !.duration = duration, !.length = Len(content),
                     !.content = content]

\* ------------------------------------------- rag_agent/tools/utils.py
\* A name is a sequence of characters; a full resource name begins with the
\* path up to the corpus id, kept as one element.
ResourcePrefix == "projects/p/locations/l/ragCorpora/"
\* what state.get returns for a key never set
None == <<"None">>
ResourceName(corpus_id) == <<ResourcePrefix>> \o corpus_id

\* The corpora the project can hold: display name and resource name
Project ==
    {[display_name |-> <<"A", "-", "b">>, name |-> ResourceName(<<"1">>)],
     [display_name |-> <<"b">>, name |-> ResourceName(<<"2">>)],
     [display_name |-> <<"A", "b">>, name |-> ResourceName(<<"2", "1">>)]}

\* The names the agent passes to the corpus tools; one is the empty string
CorpusNames ==
    {<<>>, <<"a", "_", "b">>, <<"B">>, <<"x">>, ResourceName(<<"1">>)}

\* str.lower, str.upper, str.title, str.replace, `in`
LowerChar(c) == CASE c = "A" -> "a" [] c = "B" -> "b" [] OTHER -> c
UpperChar(c) == CASE c = "a" -> "A" [] c = "b" -> "B" [] OTHER -> c
Cased(c) == c \in {"a", "b", "A", "B"}
lower(s) == [i \in DOMAIN s |-> LowerChar(s[i])]
upper(s) == [i \in DOMAIN s |-> UpperChar(s[i])]
title(s) ==
    [i \in DOMAIN s |->
        IF i > 1 /\ Cased(s[i - 1]) THEN LowerChar(s[i]) ELSE UpperChar(s[i])]
replace(s, old, new) == [i \in DOMAIN s |-> IF s[i] = old THEN new ELSE s[i]]
Contains(sub, s) ==
    \E i \in 0..(Len(s) - Len(sub)) : SubSeq(s, i + 1, i + Len(sub)) = sub

\* line 21: the pattern of a full resource name
IsResourceName(corpus_name) ==
    /\ Len(corpus_name) >= 2
    /\ corpus_name[1] = ResourcePrefix
    /\ \A i \in 2..Len(corpus_name) : corpus_name[i] # "/"

\* lines 55-56: the corpus id at the end of a resource name
CorpusId(resource_name) ==
    IF IsResourceName(resource_name) THEN Tail(resource_name) ELSE <<>>

\* FirstMatch without the sort of line 81
FirstMatch_ListOrder(matches) == matches[1].resource_name

\* lines 79-84: the first partial_display match, else the first match
FirstMatch(matches) ==
    LET display == {i \in DOMAIN matches : matches[i].type = "partial_display"}
        from == IF display = {} THEN DOMAIN matches ELSE display
    IN  matches[CHOOSE i \in from : \A j \in from : i <= j].resource_name

\* lines 50-95: the loop over the corpora and what follows it
RECURSIVE MatchCorpora(_, _, _)
MatchCorpora(corpora_list, user_input_clean, matches) ==
    IF corpora_list = <<>>
    THEN IF matches # <<>> THEN FirstMatch(matches) ELSE <<>>
    ELSE LET corpus == Head(corpora_list)
             display_name == corpus.display_name
             resource_name == corpus.name
             corpus_id == CorpusId(resource_name)
             with_display ==
                 IF display_name # <<>> /\ Contains(user_input_clean, lower(display_name))
                 THEN Append(matches, [type |-> "partial_display",
                                       resource_name |-> resource_name])
                 ELSE matches
             with_id ==
                 IF corpus_id # <<>> /\ Contains(user_input_clean, lower(corpus_id))
                 THEN Append(with_display, [type |-> "partial_id",
                                            resource_name |-> resource_name])
                 ELSE with_display
         IN  IF display_name # <<>> /\ Strip(lower(display_name)) = user_input_clean
             THEN resource_name
             ELSE IF corpus_id # <<>> /\ lower(corpus_id) = user_input_clean
             THEN resource_name
             ELSE MatchCorpora(Tail(corpora_list), user_input_clean, with_id)

\* lines 8-95, when rag.list_corpora returns corpora_list
get_corpus_resource_name(corpus_name, config, corpora_list) ==
    IF IsResourceName(corpus_name) THEN corpus_name
    ELSE IF config.project_id = "" \/ config.location = "" THEN <<>>
    ELSE IF corpora_list = <<>> THEN <<>>
    ELSE MatchCorpora(corpora_list, Strip(lower(corpus_name)), <<>>)

\* lines 120-126
Variations(identifier) ==
    <<lower(identifier), upper(identifier), title(identifier),
      replace(identifier, "_", "-"), replace(identifier, "-", "_")>>

\* lines 102-136
find_corpus_by_any_identifier(identifier, config, corpora_list) ==
    LET result == get_corpus_resource_name(identifier, config, corpora_list)
        variations == Variations(identifier)
        found == {i \in DOMAIN variations :
                    /\ variations[i] # identifier
                    /\ get_corpus_resource_name(variations[i], config, corpora_list) # <<>>}
    IN  IF result # <<>> THEN result
        ELSE IF found = {} THEN <<>>
        ELSE get_corpus_resource_name(
                 variations[CHOOSE i \in found : \A j \in found : i <= j],
                 config, corpora_list)

\* lines 36, 97-99: whether a call of rag.list_corpora is made, so that its
\* raising ends the lookup
ListsCorpora(corpus_name, config) ==
    /\ ~IsResourceName(corpus_name)
    /\ config.project_id # ""
    /\ config.location # ""

\* check_corpus_exists making every name it finds the current corpus
check_corpus_exists_AlwaysSetsCurrent(corpus_name, tool_state, config, corpora_list, raises) ==
    LET corpus_resource_name ==
            find_corpus_by_any_identifier(corpus_name, config, corpora_list)
    IN  IF corpus_name \in tool_state.corpus_exists
        THEN [value |-> TRUE, state |-> tool_state]
        ELSE IF raises /\ ListsCorpora(corpus_name, config)
        THEN [value |-> FALSE, state |-> tool_state]
        ELSE IF corpus_resource_name # <<>>
        THEN [value |-> TRUE,
              state |->
                [corpus_exists |-> tool_state.corpus_exists \cup {corpus_name},
                 corpus_resource |->
                    [tool_state.corpus_resource EXCEPT ![corpus_name] = corpus_resource_name],
                 current_corpus |-> corpus_name]]
        ELSE [value |-> FALSE, state |-> tool_state]

\* lines 139-177: the value returned and the state left; raises says that
\* rag.list_corpora raises when called
check_corpus_exists(corpus_name, tool_state, config, corpora_list, raises) ==
    LET corpus_resource_name ==
            find_corpus_by_any_identifier(corpus_name, config, corpora_list)
    IN  IF corpus_name \in tool_state.corpus_exists
        THEN [value |-> TRUE, state |-> tool_state]
        ELSE IF raises /\ ListsCorpora(corpus_name, config)
        THEN [value |-> FALSE, state |-> tool_state]
        ELSE IF corpus_resource_name # <<>>
        THEN [value |-> TRUE,
              state |->
                [corpus_exists |-> tool_state.corpus_exists \cup {corpus_name},
                 corpus_resource |->
                    [tool_state.corpus_resource EXCEPT ![corpus_name] = corpus_resource_name],
                 current_corpus |->
                    IF tool_state.current_corpus \in {None, <<>>}
                    THEN corpus_name ELSE tool_state.current_corpus]]
        ELSE [value |-> FALSE, state |-> tool_state]

\* set_current_corpus without the check of line 205
set_current_corpus_Unchecked(corpus_name, tool_state, config, corpora_list, raises) ==
    [value |-> TRUE, state |-> [tool_state EXCEPT !.current_corpus = corpus_name]]

\* lines 193-211
set_current_corpus(corpus_name, tool_state, config, corpora_list, raises) ==
    LET checked == check_corpus_exists(corpus_name, tool_state, config, corpora_list, raises)
    IN  IF checked.value
        THEN [value |-> TRUE,
              state |-> [checked.state EXCEPT !.current_corpus = corpus_name]]
        ELSE [value |-> FALSE, state |-> checked.state]

\* ------------------------------------------------------------------ state
VARIABLES
    max_content_length,  \* the tool's configured maximum
    max_in_flight,       \* how many fetches the caller keeps in flight
    fetch,               \* per fetch: the frame of _process_scraping
    html_content,        \* the body a static page serves to every fetch
    soup,                \* the tree lines 88-91 work on
    step,                \* where lines 88-91 are: "parse" or "decompose"
    texts,               \* what the fetches of the static page returned
    corpora,             \* what rag.list_corpora lists, in its order
    app_config,          \* tool_context.app_config
    state,               \* tool_context.state
    reply,               \* the last call of a corpus tool and what it returned
    listing,             \* the frame of the list_corpora tool
    cli                  \* the run of the deployment command line

extraction == <<html_content, soup, step, texts>>
rag == <<corpora, app_config, state, reply>>
vars == <<max_content_length, max_in_flight, fetch, extraction, rag, listing, cli>>

\* No static page is being fetched
NoExtraction ==
    /\ html_content = <<>>
    /\ soup = <<>>
    /\ step = "parse"
    /\ texts = <<>>

\* A fetch not yet called.  calls, chromium_out, aiohttp_out and extracted
\* record what happened: the paths entered (the log lines of 65 and 81), how
\* each path ended, and the text the returning path returned.
Idle ==
    [pc |-> "idle", entry |-> "", url |-> "", method |-> "",
     content |-> <<>>, used_method |-> "", session |-> "none", status |-> 0,
     calls |-> <<>>, chromium_out |-> "notrun", aiohttp_out |-> "notrun",
     extracted |-> <<>>, result |-> NoResult]

InFlight == {f \in Fetches : fetch[f].pc # "idle"}

\* tool_context.state before any corpus tool ran
EmptyState ==
    [corpus_exists |-> {},
     corpus_resource |-> [corpus_name \in CorpusNames |-> <<>>],
     current_corpus |-> None]
NoReply ==
    [op |-> "none", corpus_name |-> <<>>, value |-> FALSE, resource |-> <<>>,
     status |-> "", message |-> "", rag_corpus |-> <<>>]

\* list_corpora before it is called
NoListing ==
    [pc |-> "idle", project_id |-> "", calls |-> <<>>, init_error |-> "",
     client_error |-> "", rag_error |-> "",
     result |-> [status |-> "", message |-> "", corpora |-> <<>>, method |-> ""]]

\* The command line before it is run
NoCli ==
    [pc |-> "idle", flag |-> "", given |-> {}, config |-> {},
     dispatched |-> <<>>, printed |-> ""]

\* No corpus tool is in use
NoRag ==
    /\ corpora = <<>>
    /\ app_config = [project_id |-> "", location |-> ""]
    /\ state = EmptyState
    /\ reply = NoReply

Init ==
    /\ max_content_length \in 0..MaxConfigured
    /\ max_in_flight = 1
    /\ fetch = [f \in Fetches |-> Idle]
    /\ NoExtraction
    /\ NoRag
    /\ listing = NoListing
    /\ cli = NoCli

\* --------------------------------------------------- _process_scraping
\* Caught without the handler: the exception leaves _process_scraping
Caught_Propagates(s, e) == [s EXCEPT !.pc = "raised"]

\* lines 139-140: the outer handler
Caught(s, e) ==
    [s EXCEPT !.pc = "done", !.result = ErrorMessage(s.url, e)]

\* line 66-67: _scrape_with_chromium is entered and awaits loader.load
EnterChromium(s) ==
    [s EXCEPT !.pc = "load", !.calls = Append(@, "chromium"),
              !.chromium_out = "pending"]

\* lines 81-85: _scrape_with_aiohttp is entered, opens its session and
\* awaits session.get
EnterAiohttp(s) ==
    [s EXCEPT !.pc = "get", !.calls = Append(@, "aiohttp"),
              !.session = "open", !.aiohttp_out = "pending"]

\* Dispatch with 'aiohttp' sent down the branch of 'chromium'
Dispatch_AiohttpViaChromium(s) ==
    IF s.method \in {"auto", "chromium", "aiohttp"} THEN EnterChromium(s)
    ELSE Caught(s, UnknownMethod(s.method))

\* Dispatch with the final else dropped: an unknown method runs as 'auto'
Dispatch_UnknownAsAuto(s) ==
    IF s.method = "chromium" THEN EnterChromium(s)
    ELSE IF s.method = "aiohttp" THEN EnterAiohttp(s)
    ELSE EnterChromium(s)

\* Dispatch with 'auto' starting both paths at once (a race, not a fallback)
Dispatch_AutoRaces(s) ==
    IF s.method = "auto"
    THEN [EnterAiohttp(EnterChromium(s)) EXCEPT !.pc = "load"]
    ELSE IF s.method = "chromium" THEN EnterChromium(s)
    ELSE IF s.method = "aiohttp" THEN EnterAiohttp(s)
    ELSE Caught(s, UnknownMethod(s.method))

\* lines 105-124: the dispatch on method
Dispatch(s) ==
    IF s.method = "auto" THEN EnterChromium(s)
    ELSE IF s.method = "chromium" THEN EnterChromium(s)
    ELSE IF s.method = "aiohttp" THEN EnterAiohttp(s)
    ELSE Caught(s, UnknownMethod(s.method))

\* ChromiumRaised without the inner handler: no fallback in any mode
ChromiumRaised_NoFallback(s, e) == Caught([s EXCEPT !.chromium_out = e], e)

\* ChromiumRaised with the inner handler around every mode: 'chromium' falls
\* back too
ChromiumRaised_AlwaysFallback(s, e) == EnterAiohttp([s EXCEPT !.chromium_out = e])

\* lines 110-112 and 139-140: _scrape_with_chromium raised e
ChromiumRaised(s, e) ==
    LET t == [s EXCEPT !.chromium_out = e]
    IN  IF s.method = "auto" THEN EnterAiohttp(t) ELSE Caught(t, e)

\* Returned reporting the path first entered instead of the one that returned
Returned_FirstPath(s, path, text, duration) ==
    LET t == [s EXCEPT !.used_method = s.calls[1], !.extracted = text]
    IN  IF text = <<>>
        THEN [t EXCEPT !.pc = "done", !.content = text,
                       !.result = NoContentMessage(s.url, s.calls[1])]
        ELSE LET c == Truncate(text, max_content_length)
             IN  [t EXCEPT !.pc = "done", !.content = c,
                           !.result = SuccessBlock(s.url, s.calls[1], duration, c)]

\* Returned with used_method kept on the tool instead of in the call: the
\* string names the method another finished fetch stored last
Returned_SharedUsedMethod(s, path, text, duration) ==
    LET stored == {fetch[g].used_method : g \in {h \in Fetches : fetch[h].pc = "done"}}
        used == IF stored = {} THEN path ELSE CHOOSE m \in stored : TRUE
        t == [s EXCEPT !.used_method = path, !.extracted = text]
    IN  IF text = <<>>
        THEN [t EXCEPT !.pc = "done", !.content = text,
                       !.result = NoContentMessage(s.url, used)]
        ELSE LET c == Truncate(text, max_content_length)
             IN  [t EXCEPT !.pc = "done", !.content = c,
                           !.result = SuccessBlock(s.url, used, duration, c)]

\* Returned with a synchronous entry point that formats on its own and
\* leaves the truncation out
Returned_RunUntruncated(s, path, text, duration) ==
    LET t == [s EXCEPT !.used_method = path, !.extracted = text]
    IN  IF text = <<>>
        THEN [t EXCEPT !.pc = "done", !.content = text,
                       !.result = NoContentMessage(s.url, path)]
        ELSE LET c == IF s.entry = "_run" THEN text
                      ELSE Truncate(text, max_content_length)
             IN  [t EXCEPT !.pc = "done", !.content = c,
                           !.result = SuccessBlock(s.url, path, duration, c)]

\* lines 108/113/119/122 and 125-138: a path returned text
Returned(s, path, text, duration) ==
    LET t == [s EXCEPT !.used_method = path, !.extracted = text]
    IN  IF text = <<>>
        THEN [t EXCEPT !.pc = "done", !.content = text,
                       !.result = NoContentMessage(s.url, path)]
        ELSE LET c == Truncate(text, max_content_length)
             IN  [t EXCEPT !.pc = "done", !.content = c,
                           !.result = SuccessBlock(s.url, path, duration, c)]

\* AiohttpRaised with the exception swallowed inside the path, which then
\* returns no text
AiohttpRaised_Swallowed(s, e) ==
    Returned([s EXCEPT !.aiohttp_out = e, !.session = "closed"], "aiohttp", <<>>, 0)

\* AiohttpRaised with the session made outside an async with: an exception
\* leaves it open
AiohttpRaised_LeavesSessionOpen(s, e) == Caught([s EXCEPT !.aiohttp_out = e], e)

\* AiohttpRaised with one retry of the request
AiohttpRaised_RetriesOnce(s, e) ==
    IF Len(SelectSeq(s.calls, LAMBDA c : c = "aiohttp")) < 2
    THEN EnterAiohttp([s EXCEPT !.session = "closed"])
    ELSE Caught([s EXCEPT !.aiohttp_out = e, !.session = "closed"], e)

\* lines 139-140: _scrape_with_aiohttp raised e; the session is closed on
\* the way out of the async with
AiohttpRaised(s, e) ==
    Caught([s EXCEPT !.aiohttp_out = e, !.session = "closed"], e)

\* ---------------------------------------------------------------- actions
\* lines 141-146 and 92-124: _run or _arun is called and _process_scraping
\* runs to its first await (or to its return, for an unknown method)
Call(f) ==
    /\ fetch[f].pc = "idle"
    /\ Cardinality(InFlight) < max_in_flight
    /\ \E entry \in Entries, url \in Urls, method \in Methods :
         fetch' = [fetch EXCEPT ![f] =
                      Dispatch([Idle EXCEPT !.entry = entry, !.url = url,
                                            !.method = method])]
    /\ UNCHANGED <<max_content_length, max_in_flight, extraction, rag, listing, cli>>

\* lines 67-69: loader.load completes: it raises, or returns html_docs (here
\* the number of documents loaded for the one url)
ChromiumLoad(f) ==
    /\ fetch[f].pc = "load"
    /\ \E raised \in BOOLEAN, html_docs \in 0..1 :
         fetch' = [fetch EXCEPT ![f] =
                      IF raised THEN ChromiumRaised(@, RenderError)
                      ELSE IF html_docs = 0 THEN ChromiumRaised(@, NoDocuments)
                      ELSE [@ EXCEPT !.pc = "transform"]]
    /\ UNCHANGED <<max_content_length, max_in_flight, extraction, rag, listing, cli>>

\* lines 71-78: transform_documents completes: it raises, or returns
\* docs_transformed (here the page_content of each document)
ChromiumTransform(f) ==
    /\ fetch[f].pc = "transform"
    /\ \E raised \in BOOLEAN, docs_transformed \in SeqsUpTo(PageContents, 1),
          duration \in 0..MaxDuration :
         fetch' = [fetch EXCEPT ![f] =
                      IF raised THEN ChromiumRaised(@, TransformError)
                      ELSE IF docs_transformed = <<>>
                      THEN ChromiumRaised(@, NoTransformed)
                      ELSE Returned([@ EXCEPT !.chromium_out = "returned"],
                                    "chromium", docs_transformed[1], duration)]
    /\ UNCHANGED <<max_content_length, max_in_flight, extraction, rag, listing, cli>>

\* RaiseForStatus raising for server errors only
RaiseForStatus_ServerErrorsOnly(status) == status >= 500

\* lines 85-86: session.get completes: it raises (no connection, the total
\* timeout), or a response arrives and raise_for_status() looks at its status
RaiseForStatus(status) == status >= 400

AiohttpGet(f) ==
    /\ fetch[f].pc = "get"
    /\ \E e \in {"", ConnectionError, TimeoutError}, status \in Statuses :
         fetch' = [fetch EXCEPT ![f] =
                      IF e # "" THEN AiohttpRaised(@, e)
                      ELSE IF RaiseForStatus(status)
                      THEN AiohttpRaised([@ EXCEPT !.status = status],
                                         ResponseError(status))
                      ELSE [@ EXCEPT !.pc = "read", !.status = status]]
    /\ UNCHANGED <<max_content_length, max_in_flight, extraction, rag, listing, cli>>

\* lines 87-91: response.text() completes: it raises (the total timeout, a
\* broken payload), or returns html_content; both async with blocks are
\* left and the text is extracted
AiohttpRead(f) ==
    /\ fetch[f].pc = "read"
    /\ \/ \E e \in {TimeoutError, PayloadError} :
            fetch' = [fetch EXCEPT ![f] = AiohttpRaised(@, e)]
       \/ \E text \in ExtractedTexts, duration \in 0..MaxDuration :
            fetch' = [fetch EXCEPT ![f] =
                         Returned([@ EXCEPT !.aiohttp_out = "returned",
                                            !.session = "closed"],
                                  "aiohttp", text, duration)]
    /\ UNCHANGED <<max_content_length, max_in_flight, extraction, rag, listing, cli>>

\* lines 143 and 146: the entry point hands the string to its caller
Return(f) ==
    /\ fetch[f].pc = "done"
    /\ fetch' = [fetch EXCEPT ![f] = Idle]
    /\ UNCHANGED <<max_content_length, max_in_flight, extraction, rag, listing, cli>>

Next ==
    \E f \in Fetches :
        \/ Call(f)
        \/ ChromiumLoad(f)
        \/ ChromiumTransform(f)
        \/ AiohttpGet(f)
        \/ AiohttpRead(f)
        \/ Return(f)

Spec == Init /\ [][Next]_vars

\* A caller that keeps two fetches in flight on the one tool (two awaited
\* _arun coroutines, or _run on two threads)
InitConcurrent ==
    /\ max_content_length = MaxConfigured
    /\ max_in_flight = 2
    /\ fetch = [f \in Fetches |-> Idle]
    /\ NoExtraction
    /\ NoRag
    /\ listing = NoListing
    /\ cli = NoCli

SpecConcurrent == InitConcurrent /\ [][Next]_vars

\* line 82: ClientTimeout(total=self.timeout) ends an awaited session.get or
\* response.text() with TimeoutError: the raise of AiohttpGet and of
\* AiohttpRead that the budget brings about
GetTimesOut(f) ==
    /\ fetch[f].pc = "get"
    /\ fetch' = [fetch EXCEPT ![f] = AiohttpRaised(@, TimeoutError)]
    /\ UNCHANGED <<max_content_length, max_in_flight, extraction, rag, listing, cli>>

ReadTimesOut(f) ==
    /\ fetch[f].pc = "read"
    /\ fetch' = [fetch EXCEPT ![f] = AiohttpRaised(@, TimeoutError)]
    /\ UNCHANGED <<max_content_length, max_in_flight, extraction, rag, listing, cli>>

\* HttpTimeout with a budget that ends with the connection: reading the body
\* has no limit
HttpTimeout_ConnectOnly == \A f \in Fetches : WF_vars(GetTimesOut(f))

\* line 82: an await of the HTTP path that does not complete is ended by the
\* budget. Nothing of the kind wraps loader.load or transform_documents
\* (lines 66-75).
HttpTimeout ==
    \A f \in Fetches : WF_vars(GetTimesOut(f)) /\ WF_vars(ReadTimesOut(f))

SpecTimeout == Init /\ [][Next]_vars /\ HttpTimeout

\* ------------------------------------------- lines 87-91 on a static page
\* The aiohttp path run again and again against a page whose body stays the
\* same: each run parses the body it was served, decomposes the elements
\* found one by one, and returns the text of what is left.
InitStatic ==
    /\ max_content_length = MaxConfigured
    /\ max_in_flight = 0
    /\ fetch = [f \in Fetches |-> Idle]
    /\ html_content \in Pages
    /\ soup = <<>>
    /\ step = "parse"
    /\ texts = <<>>
    /\ NoRag
    /\ listing = NoListing
    /\ cli = NoCli

\* lines 87-88: response.text() returns the page's body and it is parsed
Parse ==
    /\ step = "parse"
    /\ Len(texts) < MaxRuns
    /\ soup' = ParseSoup(soup, html_content)
    /\ step' = "decompose"
    /\ UNCHANGED <<max_content_length, max_in_flight, fetch, html_content, texts, rag, listing, cli>>

\* lines 89-90: one turn of the loop
DecomposeNext ==
    /\ step = "decompose"
    /\ Found(soup) # {}
    /\ soup' = Decompose(soup, CHOOSE i \in Found(soup) : \A j \in Found(soup) : i <= j)
    /\ UNCHANGED <<max_content_length, max_in_flight, fetch, html_content, step, texts, rag, listing, cli>>

\* line 91: the loop is over and the text is returned
ReturnText ==
    /\ step = "decompose"
    /\ Found(soup) = {}
    /\ texts' = Append(texts, SoupText(soup))
    /\ step' = "parse"
    /\ UNCHANGED <<max_content_length, max_in_flight, fetch, html_content, soup, rag, listing, cli>>

NextStatic == Parse \/ DecomposeNext \/ ReturnText

SpecStatic == InitStatic /\ [][NextStatic]_vars

\* ------------------------------------------------- the corpus tools
\* The agent calls the corpus tools one at a time on one tool_context while
\* corpora are created and deleted in the project.
ConfigComplete == [project_id |-> "p", location |-> "l"]
ConfigMissing == [project_id |-> "", location |-> ""]

Listed == {corpora[i] : i \in DOMAIN corpora}

InitRag ==
    /\ max_content_length = MaxConfigured
    /\ max_in_flight = 0
    /\ fetch = [f \in Fetches |-> Idle]
    /\ NoExtraction
    /\ corpora = <<>>
    /\ app_config \in {ConfigComplete, ConfigMissing}
    /\ state = EmptyState
    /\ reply = NoReply
    /\ listing = NoListing
    /\ cli = NoCli

\* a corpus is created: the service lists it after the others
CreateCorpus ==
    /\ Len(corpora) < MaxCorpora
    /\ \E corpus \in Project \ Listed : corpora' = Append(corpora, corpus)
    /\ reply' = NoReply
    /\ UNCHANGED <<max_content_length, max_in_flight, fetch, extraction, app_config, state, listing, cli>>

\* a corpus is deleted
DeleteCorpus ==
    /\ \E i \in DOMAIN corpora :
          corpora' = SubSeq(corpora, 1, i - 1) \o SubSeq(corpora, i + 1, Len(corpora))
    /\ reply' = NoReply
    /\ UNCHANGED <<max_content_length, max_in_flight, fetch, extraction, app_config, state, listing, cli>>

\* lines 139-177
CheckCorpusExists ==
    /\ \E corpus_name \in CorpusNames, raises \in BOOLEAN :
          LET done == check_corpus_exists(corpus_name, state, app_config, corpora, raises)
          IN  /\ state' = done.state
              /\ reply' = [NoReply EXCEPT !.op = "check_corpus_exists",
                                          !.corpus_name = corpus_name,
                                          !.value = done.value]
    /\ UNCHANGED <<max_content_length, max_in_flight, fetch, extraction, app_config, corpora, listing, cli>>

\* lines 193-211
SetCurrentCorpus ==
    /\ \E corpus_name \in CorpusNames, raises \in BOOLEAN :
          LET done == set_current_corpus(corpus_name, state, app_config, corpora, raises)
          IN  /\ state' = done.state
              /\ reply' = [NoReply EXCEPT !.op = "set_current_corpus",
                                          !.corpus_name = corpus_name,
                                          !.value = done.value]
    /\ UNCHANGED <<max_content_length, max_in_flight, fetch, extraction, app_config, corpora, listing, cli>>

NextRag == CreateCorpus \/ DeleteCorpus \/ CheckCorpusExists \/ SetCurrentCorpus

SpecRag == InitRag /\ [][NextRag]_vars

\* ---------------------------------------------- tools/rag_query.py
\* line 27: the one name with a resource name written into the code
Trading == <<"t", "r", "a", "d", "i", "n", "g">>
TradingResource ==
    <<"projects/fabled-badge-458903-t9/locations/us-central1/ragCorpora/",
      "3746994889972252672">>

\* line 30: corpus_name.startswith("projects/"); a name that is no full
\* resource name can begin so too
ProjectsSlash == "projects/"
StartsWithProjects(corpus_name) ==
    /\ corpus_name # <<>>
    /\ corpus_name[1] \in {ProjectsSlash, ResourcePrefix}

\* The names the agent passes to rag_query
QueryNames ==
    {<<"a", "_", "b">>, <<"B">>, <<"x">>, ResourceName(<<"1">>),
     Trading, <<ProjectsSlash, "x">>}

\* The messages of the results (their fixed parts)
DoesNotExist == "does not exist. Please create it first using the create_corpus tool."
CouldNotGetResourceName == "Could not get resource name for corpus"
ErrorQuerying == "Error querying corpus: "
NoResultsFound == "No results found in corpus for query"
SuccessfullyQueried == "Successfully queried corpus"

\* lines 64-141: rag.retrieval_query is called on corpus_resource_name and
\* raises, returns no context, or returns some
Retrieved(corpus_name, corpus_exists, corpus_resource_name, retrieval) ==
    [NoReply EXCEPT
        !.op = "rag_query",
        !.corpus_name = corpus_name,
        !.value = corpus_exists,
        !.rag_corpus = corpus_resource_name,
        !.status = CASE retrieval = "raises" -> "error"
                     [] retrieval = "empty" -> "warning"
                     [] OTHER -> "success",
        !.message = CASE retrieval = "raises" -> ErrorQuerying
                      [] retrieval = "empty" -> NoResultsFound
                      [] OTHER -> SuccessfullyQueried]

\* lines 15-141: the result (as reply) and the state left; check_raises and
\* lookup_raises say that rag.list_corpora raises when check_corpus_exists,
\* or line 51, calls it
rag_query(corpus_name, tool_state, config, corpora_list, check_raises, lookup_raises, retrieval) ==
    LET checked == check_corpus_exists(corpus_name, tool_state, config,
                                       corpora_list, check_raises)
        corpus_resource_name ==
            get_corpus_resource_name(corpus_name, config, corpora_list)
        refused == [NoReply EXCEPT !.op = "rag_query",
                                   !.corpus_name = corpus_name,
                                   !.status = "error"]
    IN  IF corpus_name = Trading
        THEN [reply |-> Retrieved(corpus_name, FALSE, TradingResource, retrieval),
              state |-> tool_state]
        ELSE IF StartsWithProjects(corpus_name)
        THEN [reply |-> Retrieved(corpus_name, FALSE, corpus_name, retrieval),
              state |-> tool_state]
        ELSE IF ~checked.value
        THEN [reply |-> [refused EXCEPT !.message = DoesNotExist],
              state |-> checked.state]
        ELSE IF lookup_raises /\ ListsCorpora(corpus_name, config)
        THEN [reply |-> [refused EXCEPT !.value = TRUE, !.message = ErrorQuerying],
              state |-> checked.state]
        ELSE IF corpus_resource_name = <<>>
        THEN [reply |-> [refused EXCEPT !.value = TRUE,
                                        !.message = CouldNotGetResourceName],
              state |-> checked.state]
        ELSE [reply |-> Retrieved(corpus_name, TRUE, corpus_resource_name, retrieval),
              state |-> checked.state]

\* The agent queries corpora on one tool_context while corpora are created
\* and deleted in the project.
InitQuery ==
    /\ max_content_length = MaxConfigured
    /\ max_in_flight = 0
    /\ fetch = [f \in Fetches |-> Idle]
    /\ NoExtraction
    /\ corpora = <<>>
    /\ app_config = ConfigComplete
    /\ state = EmptyState
    /\ reply = NoReply
    /\ listing = NoListing
    /\ cli = NoCli

\* lines 15-141
RagQuery ==
    /\ \E corpus_name \in QueryNames, check_raises, lookup_raises \in BOOLEAN,
          retrieval \in {"raises", "empty", "results"} :
          LET done == rag_query(corpus_name, state, app_config, corpora,
                                check_raises, lookup_raises, retrieval)
          IN  /\ state' = done.state
              /\ reply' = done.reply
    /\ UNCHANGED <<max_content_length, max_in_flight, fetch, extraction, app_config, corpora, listing, cli>>

NextQuery == CreateCorpus \/ DeleteCorpus \/ RagQuery

SpecQuery == InitQuery /\ [][NextQuery]_vars

\* ------------------------------------------ get_corpus_resource_name
\* The lookup applied to the lists the service can return and to the names
\* a caller can pass.
Listable ==
    Project \cup
    {[display_name |-> <<"a", "1", " ">>, name |-> ResourceName(<<"3">>)]}

LookupNames ==
    CorpusNames \cup
    {<<"1">>, ResourceName(<<"9">>), <<" ", "b", " ">>, <<"A">>, <<"a", "1">>,
     <<"2">>, <<"A", "B">>, <<"-">>}

\* the lists of at most MaxCorpora corpora, none listed twice
CorporaLists ==
    {list \in SeqsUpTo(Listable, MaxCorpora) :
        \A i, j \in DOMAIN list : i # j => list[i] # list[j]}

InitLookup ==
    /\ max_content_length = MaxConfigured
    /\ max_in_flight = 0
    /\ fetch = [f \in Fetches |-> Idle]
    /\ NoExtraction
    /\ corpora \in CorporaLists
    /\ app_config \in {ConfigComplete, ConfigMissing}
    /\ state = EmptyState
    /\ reply = NoReply
    /\ listing = NoListing
    /\ cli = NoCli

\* lines 8-95: rag.list_corpora returns the list and does not raise
GetCorpusResourceName ==
    /\ \E corpus_name \in LookupNames :
          reply' = [NoReply EXCEPT
                       !.op = "get_corpus_resource_name",
                       !.corpus_name = corpus_name,
                       !.resource = get_corpus_resource_name(corpus_name, app_config, corpora)]
    /\ UNCHANGED <<max_content_length, max_in_flight, fetch, extraction,
                   app_config, corpora, state, listing, cli>>

NextLookup == GetCorpusResourceName

SpecLookup == InitLookup /\ [][NextLookup]_vars

\* --------------------------------------------- tools/list_corpora.py
\* The messages of the results (their fixed parts)
ProjectIdNotFound == "Project ID not found."
FailedToInitialize == "Failed to initialize Vertex AI: "
BothMethodsFailed == "Both methods failed."
FoundCorpora == "Found available corpora"

\* lines 82-87 and 109-114: what is returned for each corpus listed
RECURSIVE CorpusInfo(_)
CorpusInfo(list) ==
    IF list = <<>> THEN <<>>
    ELSE <<[resource_name |-> Head(list).name,
            display_name |-> Head(list).display_name]>> \o CorpusInfo(Tail(list))

\* the error results: 'corpora' is written [] in each
ErrorResult(s, message) ==
    [s EXCEPT !.pc = "done",
              !.result = [status |-> "error", message |-> message,
                          corpora |-> <<>>, method |-> ""]]

\* lines 89-94 and 117-122
SuccessResult(s, list, method) ==
    [s EXCEPT !.pc = "done",
              !.result = [status |-> "success", message |-> FoundCorpora,
                          corpora |-> CorpusInfo(list), method |-> method]]

\* lines 46-55: with a project id vertexai.init is called, without one the
\* call ends
WithProject(s, project_id) ==
    IF project_id = "" THEN ErrorResult(s, ProjectIdNotFound)
    ELSE [s EXCEPT !.pc = "init", !.project_id = project_id]

\* ClientRaised giving up after the first method
ClientRaised_GivesUp(s, e) ==
    ErrorResult([s EXCEPT !.client_error = e], BothMethodsFailed)

\* lines 96-99: the first method raised e and the second is tried
ClientRaised(s, e) == [s EXCEPT !.pc = "rag", !.client_error = e]

InitListing ==
    /\ max_content_length = MaxConfigured
    /\ max_in_flight = 0
    /\ fetch = [f \in Fetches |-> Idle]
    /\ NoExtraction
    /\ corpora \in CorporaLists
    /\ app_config = ConfigMissing
    /\ state = EmptyState
    /\ reply = NoReply
    /\ listing = NoListing
    /\ cli = NoCli

\* lines 10-31: list_corpora is called; project_id is None, '' or a project,
\* and GOOGLE_CLOUD_PROJECT is unset or a project
ListCorpora ==
    /\ listing.pc = "idle"
    /\ \E project_id \in {"None", "", "p"}, environ \in {"", "e"} :
          listing' =
              IF project_id # "None" THEN WithProject(listing, project_id)
              ELSE IF environ # "" THEN WithProject(listing, environ)
              ELSE [listing EXCEPT !.pc = "gcloud"]
    /\ UNCHANGED <<max_content_length, max_in_flight, fetch, extraction, rag, cli>>

\* lines 34-51: gcloud config get-value project raises (the bare except
\* passes) or prints a project or nothing
GcloudConfig ==
    /\ listing.pc = "gcloud"
    /\ \E raised \in BOOLEAN, stdout \in {"", "g"} :
          listing' = WithProject(listing, IF raised THEN "" ELSE stdout)
    /\ UNCHANGED <<max_content_length, max_in_flight, fetch, extraction, rag, cli>>

\* lines 54-61: vertexai.init returns or raises
VertexInit ==
    /\ listing.pc = "init"
    /\ \E raised \in BOOLEAN :
          listing' =
              IF raised
              THEN ErrorResult([listing EXCEPT !.init_error = "init_error"],
                               FailedToInitialize)
              ELSE [listing EXCEPT !.pc = "client"]
    /\ UNCHANGED <<max_content_length, max_in_flight, fetch, extraction, rag, cli>>

\* lines 64-96: the aiplatform client lists the corpora or raises
ClientListing ==
    /\ listing.pc = "client"
    /\ \E raised \in BOOLEAN :
          LET called == [listing EXCEPT !.calls = Append(@, "list_rag_corpora")]
          IN  listing' =
                  IF raised THEN ClientRaised(called, "client_error")
                  ELSE SuccessResult(called, corpora, "aiplatform_client")
    /\ UNCHANGED <<max_content_length, max_in_flight, fetch, extraction, rag, cli>>

\* lines 98-135: rag.list_corpora lists the corpora or raises
RagListing ==
    /\ listing.pc = "rag"
    /\ \E raised \in BOOLEAN :
          LET called == [listing EXCEPT !.calls = Append(@, "rag.list_corpora")]
          IN  listing' =
                  IF raised
                  THEN ErrorResult([called EXCEPT !.rag_error = "rag_error"],
                                   BothMethodsFailed)
                  ELSE SuccessResult(called, corpora, "rag_list_corpora")
    /\ UNCHANGED <<max_content_length, max_in_flight, fetch, extraction, rag, cli>>

NextListing ==
    ListCorpora \/ GcloudConfig \/ VertexInit \/ ClientListing \/ RagListing

SpecListing == InitListing /\ [][NextListing]_vars

\* --------------------------------------------- deployment/remote.py
\* lines 52-66: the flags marked mutually exclusive; at most one is set
ActionFlags ==
    {"create", "delete", "list", "create_session", "send", "create_corpus",
     "list_corpora", "get_corpus", "list_files", "check_operations", "reimport"}

\* the string flags main looks at before it dispatches
StringFlags == {"corpus_name", "resource_id", "session_id", "corpus_id", "gcs_uri"}

\* lines 415-420: what a flag or the environment provides
ConfigItems == {"project_id", "location", "bucket"}

MissingConfig == "Missing required GCP config."
Required(what) == what \o " required"
PleaseSpecify == "Please specify one of: "

\* lines 408-487: what main calls and what it prints itself
main(flag, given, config) ==
    LET ran(operation) ==
            [NoCli EXCEPT !.pc = "done", !.flag = flag, !.given = given,
                          !.config = config, !.dispatched = <<operation>>]
        said(text) ==
            [NoCli EXCEPT !.pc = "done", !.flag = flag, !.given = given,
                          !.config = config, !.printed = text]
        needs(names, operation) ==
            IF names \subseteq given THEN ran(operation) ELSE said(Required(flag))
    IN  IF config # ConfigItems THEN said(MissingConfig)
        ELSE IF flag = "create" THEN ran("create")
        ELSE IF flag = "create_corpus"
        THEN needs({"corpus_name"}, "create_rag_corpus")
        ELSE IF flag = "delete" THEN needs({"resource_id"}, "delete")
        ELSE IF flag = "list" THEN ran("list_deployments")
        ELSE IF flag = "create_session"
        THEN needs({"resource_id"}, "create_session")
        ELSE IF flag = "send"
        THEN needs({"resource_id", "session_id"}, "send_message")
        ELSE IF flag = "list_corpora" THEN ran("list_corpora")
        ELSE IF flag = "get_corpus" THEN needs({"corpus_id"}, "get_corpus_details")
        ELSE IF flag = "list_files" THEN needs({"corpus_id"}, "list_corpus_files")
        ELSE IF flag = "reimport"
        THEN needs({"corpus_id", "gcs_uri"}, "import_document_to_corpus")
        ELSE said(PleaseSpecify)

InitCli ==
    /\ max_content_length = MaxConfigured
    /\ max_in_flight = 0
    /\ fetch = [f \in Fetches |-> Idle]
    /\ NoExtraction
    /\ NoRag
    /\ listing = NoListing
    /\ cli = NoCli

\* line 491: the command line is run with at most one action flag
Main ==
    /\ cli.pc = "idle"
    /\ \E flag \in ActionFlags \cup {""}, given \in SUBSET StringFlags,
          config \in SUBSET ConfigItems :
          cli' = main(flag, given, config)
    /\ UNCHANGED <<max_content_length, max_in_flight, fetch, extraction, rag, listing>>

NextCli == Main

SpecCli == InitCli /\ [][NextCli]_vars

\* ----------------------------------------------------------------- claims
Done(f) == fetch[f].pc = "done"
Failed(out) == out \notin {"notrun", "pending", "returned"}
Min(a, b) == IF a < b THEN a ELSE b
\* The characters of text that fit the configured maximum
Kept(text) == SubSeq(text, 1, Min(Len(text), max_content_length))

\* C1: in mode 'auto' the Chromium path is entered first and the aiohttp
\* path only after Chromium has failed; once Chromium has failed the aiohttp
\* path has been entered, and when it returns non-empty text the fetch ends
\* in the success block, which reports method aiohttp and carries that text
\* (its first max_content_length characters).
C1_AutoFallsBackToHttp ==
    \A f \in Fetches :
        LET s == fetch[f]
        IN  s.method = "auto" =>
              /\ s.calls \in {<<"chromium">>, <<"chromium", "aiohttp">>}
              /\ Failed(s.chromium_out) <=> (s.calls = <<"chromium", "aiohttp">>)
              /\ (Done(f) /\ Failed(s.chromium_out) /\ s.aiohttp_out = "returned"
                    /\ s.extracted # <<>>) =>
                    /\ s.result.head = SuccessHead
                    /\ s.result.method = "aiohttp"
                    /\ SubSeq(s.result.content, 1, Len(Kept(s.extracted)))
                         = Kept(s.extracted)

C1_Witness ==
    \E f \in Fetches :
        /\ Done(f) /\ fetch[f].method = "auto"
        /\ fetch[f].chromium_out = RenderError
        /\ fetch[f].aiohttp_out = "returned"
        /\ fetch[f].status = 200
        /\ fetch[f].extracted = <<"a", "\n", "b">>
        /\ fetch[f].result.method = "aiohttp"

\* C2: in mode 'chromium' the aiohttp path is never entered (no session is
\* opened), and when the Chromium path fails the fetch ends in the error
\* string for that failure.
C2_ForcedBrowserNeverUsesHttp ==
    \A f \in Fetches :
        LET s == fetch[f]
        IN  s.method = "chromium" =>
              /\ s.calls = <<"chromium">>
              /\ s.aiohttp_out = "notrun" /\ s.session = "none"
              /\ Failed(s.chromium_out) =>
                    /\ Done(f)
                    /\ s.result.head = ErrorHead
                    /\ s.result.detail = s.chromium_out

C2_Witness ==
    \E f \in Fetches :
        /\ Done(f) /\ fetch[f].method = "chromium"
        /\ fetch[f].chromium_out = NoDocuments
        /\ fetch[f].result.head = ErrorHead

\* C3: in mode 'aiohttp' only the aiohttp path is entered, and when it fails
\* the fetch ends in the error string, which carries str(e) of the failure
\* and no content.
C3_ForcedHttpOnly ==
    \A f \in Fetches :
        LET s == fetch[f]
        IN  s.method = "aiohttp" =>
              /\ s.calls = <<"aiohttp">>
              /\ s.chromium_out = "notrun"
              /\ Failed(s.aiohttp_out) =>
                    /\ Done(f)
                    /\ s.result.head = ErrorHead
                    /\ s.result.detail = s.aiohttp_out
                    /\ s.result.content = <<>> /\ s.content = <<>>
                    /\ s.result.method = ""

C3_Witness ==
    \E f \in Fetches :
        /\ Done(f) /\ fetch[f].method = "aiohttp"
        /\ fetch[f].aiohttp_out = ResponseError(404)
        /\ fetch[f].result.detail = ResponseError(404)

\* C4: whatever the mode and however the paths end, no exception leaves
\* _process_scraping: a fetch is waiting on a path or has a string to
\* return, one of the three the code formats, and every failure (of a path,
\* or an unknown mode) ends in the error string.
C4_NoExceptionEscapes ==
    \A f \in Fetches :
        LET s == fetch[f]
        IN  /\ s.pc \in {"idle", "load", "transform", "get", "read", "done"}
            /\ Done(f) => s.result.head \in {SuccessHead, NoContentHead, ErrorHead}
            /\ (Done(f) /\ s.method \notin {"auto", "chromium", "aiohttp"}) =>
                  s.result.head = ErrorHead
            /\ (s.pc # "idle" /\ (Failed(s.aiohttp_out)
                  \/ (Failed(s.chromium_out) /\ s.method # "auto"))) =>
                  Done(f) /\ s.result.head = ErrorHead

C4_Witness ==
    \E f \in Fetches :
        /\ Done(f) /\ fetch[f].entry = "_run" /\ fetch[f].method = "auto"
        /\ fetch[f].chromium_out = TransformError
        /\ fetch[f].aiohttp_out = TimeoutError
        /\ fetch[f].result.head = ErrorHead

\* C5: a string that names a method (the success block, the no-content
\* message) names the path that returned the text: the last path entered,
\* which ended by returning; after a fallback that is aiohttp.
PathOut(s, path) == IF path = "chromium" THEN s.chromium_out ELSE s.aiohttp_out

C5_MethodUsedIsThePathThatReturned ==
    \A f \in Fetches :
        LET s == fetch[f]
            m == s.result.method
        IN  (Done(f) /\ s.result.head \in {SuccessHead, NoContentHead}) =>
              /\ m \in {"chromium", "aiohttp"}
              /\ m = s.calls[Len(s.calls)]
              /\ PathOut(s, m) = "returned"
              /\ Len(s.calls) = 2 => m = "aiohttp"
              /\ \A path \in {"chromium", "aiohttp"} :
                    path # m => PathOut(s, path) # "returned"

C5_Witness ==
    \E f \in Fetches :
        /\ Done(f) /\ fetch[f].calls = <<"chromium", "aiohttp">>
        /\ fetch[f].result.head = SuccessHead
        /\ fetch[f].result.method = "aiohttp"
        /\ fetch[f].chromium_out = NoTransformed

\* C6: in the success block, text longer than max_content_length is emitted
\* as its first max_content_length characters followed by the truncation
\* marker (length: the maximum plus the marker's), and text no longer than
\* the maximum is emitted as it is.
C6_TruncationLength ==
    \A f \in Fetches :
        LET s == fetch[f]
        IN  (Done(f) /\ s.result.head = SuccessHead) =>
              IF Len(s.extracted) > max_content_length
              THEN /\ s.result.content =
                        SubSeq(s.extracted, 1, max_content_length) \o TruncationMarker
                   /\ Len(s.result.content) = max_content_length + Len(TruncationMarker)
                   /\ s.result.length = max_content_length + 25
              ELSE /\ s.result.content = s.extracted
                   /\ s.result.length = Len(s.extracted)

C6_Witness ==
    \E f \in Fetches :
        /\ Done(f) /\ fetch[f].result.head = SuccessHead
        /\ max_content_length = 2
        /\ fetch[f].extracted = <<"a", "b", "b">>
        /\ Len(fetch[f].result.content) = 27

\* C7 as stated: the text a fetch returns is never longer than
\* max_content_length.
C7_ReturnedTextWithinMaximum ==
    \A f \in Fetches : Done(f) => Len(fetch[f].result.content) <= max_content_length

\* C7, amended: the part of the extracted text that a fetch returns is never
\* longer than max_content_length; the returned text is that part, followed
\* by the truncation marker exactly when something was cut, so it is never
\* longer than the maximum plus the marker.
C7_KeptTextWithinMaximum ==
    \A f \in Fetches :
        LET s == fetch[f]
            c == s.result.content
        IN  Done(f) =>
              /\ Len(c) <= max_content_length + Len(TruncationMarker)
              /\ \E k \in 0..max_content_length :
                    /\ k <= Len(s.extracted)
                    /\ c = SubSeq(s.extracted, 1, k)
                             \o (IF k < Len(s.extracted) /\ s.result.head = SuccessHead
                                 THEN TruncationMarker ELSE <<>>)
                    /\ s.result.head = SuccessHead =>
                          (k = Len(s.extracted) \/ k = max_content_length)

C7_Witness ==
    \E f \in Fetches :
        /\ Done(f) /\ fetch[f].result.head = SuccessHead
        /\ max_content_length = 1
        /\ fetch[f].extracted = <<"b", "a">>
        /\ fetch[f].result.content = <<"b">> \o TruncationMarker

\* C8 as stated: in mode 'auto' the aiohttp path is entered whenever the
\* Chromium path raised, loaded no document, transformed to no document, or
\* returned empty text.
C8_FallbackOnEveryBrowserFailure ==
    \A f \in Fetches :
        LET s == fetch[f]
        IN  (Done(f) /\ s.method = "auto"
               /\ (Failed(s.chromium_out)
                     \/ (s.chromium_out = "returned" /\ s.extracted = <<>>))) =>
              s.calls = <<"chromium", "aiohttp">>

\* C9: when the path that ran returns empty text the fetch ends in the
\* no-content message naming that path; the three strings start differently,
\* and which one a fetch ends in tells what happened: the success block for
\* non-empty text, the no-content message for empty text, the error string
\* for an exception.
Raised(s) ==
    \/ s.method \notin {"auto", "chromium", "aiohttp"}
    \/ Failed(s.aiohttp_out)
    \/ (Failed(s.chromium_out) /\ s.method = "chromium")

C9_NoContentIsTellable ==
    /\ SuccessHead # NoContentHead /\ SuccessHead # ErrorHead
    /\ NoContentHead # ErrorHead
    /\ \A f \in Fetches :
          LET s == fetch[f]
              returned == "returned" \in {s.chromium_out, s.aiohttp_out}
          IN  Done(f) =>
                /\ (returned /\ s.extracted = <<>>) <=> s.result.head = NoContentHead
                /\ (returned /\ s.extracted # <<>>) <=> s.result.head = SuccessHead
                /\ Raised(s) <=> s.result.head = ErrorHead
                /\ s.result.head = NoContentHead =>
                      /\ s.result.method = s.calls[Len(s.calls)]
                      /\ s.result.method = s.used_method
                      /\ s.result.content = <<>>

C9_Witness ==
    \E f \in Fetches :
        /\ Done(f) /\ fetch[f].method = "aiohttp"
        /\ fetch[f].aiohttp_out = "returned" /\ fetch[f].extracted = <<>>
        /\ fetch[f].result = NoContentMessage(fetch[f].url, "aiohttp")

\* C10: in mode 'auto', when the Chromium path and then the aiohttp path
\* fail, the fetch ends in the error string for the aiohttp failure, and no
\* path is entered after the two.
C10_BothPathsFail ==
    \A f \in Fetches :
        LET s == fetch[f]
        IN  /\ Len(s.calls) <= 2
            /\ (s.method = "auto" /\ Failed(s.chromium_out) /\ Failed(s.aiohttp_out)) =>
                  /\ Done(f)
                  /\ s.calls = <<"chromium", "aiohttp">>
                  /\ s.result.head = ErrorHead
                  /\ s.result.detail = s.aiohttp_out
                  /\ s.result.content = <<>>

C10_Witness ==
    \E f \in Fetches :
        /\ Done(f) /\ fetch[f].method = "auto"
        /\ fetch[f].chromium_out = RenderError
        /\ fetch[f].aiohttp_out = ConnectionError
        /\ fetch[f].result = ErrorMessage(fetch[f].url, ConnectionError)

\* C11: a method that is none of 'auto', 'chromium', 'aiohttp' ends the fetch
\* at once in the error string "Unknown method: <method>"; no path is
\* entered and no session is opened.
C11_UnknownMethodIsAnError ==
    \A f \in Fetches :
        LET s == fetch[f]
        IN  (s.pc # "idle" /\ s.method \notin {"auto", "chromium", "aiohttp"}) =>
              /\ Done(f)
              /\ s.calls = <<>>
              /\ s.chromium_out = "notrun" /\ s.aiohttp_out = "notrun"
              /\ s.session = "none"
              /\ s.result = ErrorMessage(s.url, "Unknown method: " \o s.method)

C11_Witness ==
    \E f \in Fetches :
        /\ Done(f) /\ fetch[f].method = "selenium"
        /\ fetch[f].result.head = ErrorHead
        /\ fetch[f].result.detail = "Unknown method: selenium"

\* C12: within one fetch the two paths are never in progress together: while
\* the Chromium path is awaited no session is open, the aiohttp path is
\* entered in mode 'auto' only once the Chromium path has failed, and never
\* when the Chromium path has returned.
C12_PathsNeverOverlap ==
    \A f \in Fetches :
        LET s == fetch[f]
        IN  /\ ~(s.chromium_out = "pending" /\ s.aiohttp_out = "pending")
            /\ s.pc \in {"load", "transform"} =>
                  /\ s.chromium_out = "pending"
                  /\ s.aiohttp_out = "notrun" /\ s.session = "none"
            /\ s.pc \in {"get", "read"} =>
                  /\ s.aiohttp_out = "pending"
                  /\ s.chromium_out # "pending"
            /\ (s.method = "auto" /\ s.aiohttp_out # "notrun") => Failed(s.chromium_out)
            /\ s.chromium_out = "returned" => s.aiohttp_out = "notrun"

C12_Witness ==
    \E f \in Fetches :
        /\ fetch[f].method = "auto" /\ fetch[f].pc = "get"
        /\ fetch[f].chromium_out = NoDocuments
        /\ fetch[f].aiohttp_out = "pending"

\* C13: a session is open only while the aiohttp path awaits session.get or
\* response.text(); when the fetch has its string to return, the session it
\* opened is closed, however the path ended.
C13_SessionClosedOnEveryExit ==
    \A f \in Fetches :
        LET s == fetch[f]
        IN  /\ s.session = "open" <=> s.pc \in {"get", "read"}
            /\ Done(f) => s.session # "open"
            /\ (Done(f) /\ "aiohttp" \in {s.calls[i] : i \in DOMAIN s.calls}) =>
                  s.session = "closed"

C13_Witness ==
    \E f \in Fetches :
        /\ Done(f) /\ fetch[f].aiohttp_out = TimeoutError
        /\ fetch[f].status = 0
        /\ fetch[f].session = "closed"

\* C15: in one fetch each path is entered at most once, whatever the mode
\* and the failures: calls holds no path twice.
Entered(s, path) == Cardinality({i \in DOMAIN s.calls : s.calls[i] = path})

C15_NoRetries ==
    \A f \in Fetches :
        /\ Entered(fetch[f], "chromium") <= 1
        /\ Entered(fetch[f], "aiohttp") <= 1

C15_Witness ==
    \E f \in Fetches :
        /\ Done(f) /\ fetch[f].method = "aiohttp"
        /\ fetch[f].aiohttp_out = ResponseError(500)
        /\ fetch[f].calls = <<"aiohttp">>

\* C16 as stated: a response whose status is not 2xx is never read: the
\* aiohttp path goes on to response.text() only with a 2xx status.
C16_EveryNon2xxFails ==
    \A f \in Fetches :
        (fetch[f].status # 0 /\ fetch[f].status \notin 200..299) =>
            /\ fetch[f].pc # "read"
            /\ fetch[f].aiohttp_out # "returned"

\* C16, amended: a response whose status is 400 or more fails the aiohttp
\* path: nothing is extracted and the fetch ends in the error string for
\* that status; a response with a status below 400 is read.
C16_ErrorStatusFails ==
    \A f \in Fetches :
        LET s == fetch[f]
        IN  /\ (s.status >= 400) =>
                  /\ Done(f)
                  /\ s.aiohttp_out = ResponseError(s.status)
                  /\ s.extracted = <<>> /\ s.content = <<>>
                  /\ s.result = ErrorMessage(s.url, ResponseError(s.status))
            /\ (s.status # 0 /\ s.status < 400) =>
                  \/ s.pc = "read"
                  \/ s.aiohttp_out \in {"returned", TimeoutError, PayloadError}

C16_Witness ==
    \E f \in Fetches :
        /\ Done(f) /\ fetch[f].status = 404
        /\ fetch[f].result.detail = ResponseError(404)

\* C14: with two fetches in flight on the one tool, under every
\* interleaving, the string a fetch ends in is the one its own request and
\* the outcomes of its own paths give (whatever the other fetch did), and a
\* step of one fetch leaves the frame of the other as it was.
OwnOutcome(s) ==
    LET path == IF s.aiohttp_out = "returned" THEN "aiohttp" ELSE "chromium"
        cut == Len(s.extracted) > max_content_length
    IN  IF s.method \notin {"auto", "chromium", "aiohttp"}
        THEN ErrorMessage(s.url, "Unknown method: " \o s.method)
        ELSE IF Failed(s.aiohttp_out) THEN ErrorMessage(s.url, s.aiohttp_out)
        ELSE IF Failed(s.chromium_out) /\ s.method = "chromium"
        THEN ErrorMessage(s.url, s.chromium_out)
        ELSE IF s.extracted = <<>> THEN NoContentMessage(s.url, path)
        ELSE SuccessBlock(s.url, path, s.result.duration,
                          Kept(s.extracted) \o (IF cut THEN TruncationMarker ELSE <<>>))

C14_FetchesAreIndependent ==
    /\ [](\A f \in Fetches : Done(f) => fetch[f].result = OwnOutcome(fetch[f]))
    /\ [][\A f, g \in Fetches :
            (f # g /\ fetch'[f] # fetch[f]) => fetch'[g] = fetch[g]]_vars

C14_Witness ==
    /\ Done("f1") /\ fetch["f1"].method = "auto"
    /\ fetch["f1"].calls = <<"chromium", "aiohttp">>
    /\ fetch["f1"].result.head = SuccessHead
    /\ Done("f2") /\ fetch["f2"].method = "chromium"
    /\ fetch["f2"].result.head = SuccessHead
    /\ fetch["f2"].result.method = "chromium"

\* C19: a fetch made through _run and one made through _arun with the same
\* url, method and path outcomes end in the same string (the measured
\* duration aside), and either entry point hands control back to its caller
\* only once _process_scraping has its string.
SameCall(s, t) ==
    /\ s.url = t.url /\ s.method = t.method
    /\ s.chromium_out = t.chromium_out /\ s.aiohttp_out = t.aiohttp_out
    /\ s.extracted = t.extracted

C19_RunEqualsArun ==
    /\ [](\A f, g \in Fetches :
            (Done(f) /\ Done(g) /\ fetch[f].entry = "_run" /\ fetch[g].entry = "_arun"
               /\ SameCall(fetch[f], fetch[g])) =>
              [fetch[f].result EXCEPT !.duration = 0]
                = [fetch[g].result EXCEPT !.duration = 0])
    /\ [][\A f \in Fetches :
            (fetch[f].pc # "idle" /\ fetch'[f].pc = "idle") =>
              /\ fetch[f].pc = "done"
              /\ fetch[f].result.head \in {SuccessHead, NoContentHead, ErrorHead}]_vars

C19_Witness ==
    /\ Done("f1") /\ Done("f2")
    /\ fetch["f1"].entry = "_run" /\ fetch["f2"].entry = "_arun"
    /\ SameCall(fetch["f1"], fetch["f2"])
    /\ fetch["f1"].method = "auto"
    /\ fetch["f1"].result.head = SuccessHead
    /\ Len(fetch["f1"].extracted) > max_content_length
    /\ fetch["f1"].result.content = fetch["f2"].result.content

\* C17: the fetches of a page that serves the same body all return the same
\* text, the text of that body: a later fetch returns what the first did.
C17_SameBodySameText ==
    \A i \in DOMAIN texts :
        /\ texts[i] = texts[1]
        /\ texts[i] = GetText(html_content)

C17_Witness ==
    /\ Len(texts) = 2
    /\ html_content = <<[tag |-> "nav", text |-> <<"a">>],
                        [tag |-> "div", text |-> <<" ", "b">>]>>
    /\ texts[2] = <<"b">>

\* C18: the text returned for a body holds the characters of the elements
\* that are not script, style, nav, footer or header, no character of an
\* element that is one of them, one separator between two texts, begins with
\* the text of the first element kept, and is exactly "Hello" for the body
\* <script>x</script><p>Hello</p>.
Visible(html) ==
    {i \in DOMAIN html :
        /\ html[i].tag \notin {"script", "style", "nav", "footer", "header"}
        /\ \E j \in DOMAIN html[i].text : html[i].text[j] # " "}
Count(text, c) == Cardinality({i \in DOMAIN text : text[i] = c})
CountVisible(html, c) ==
    Cardinality({<<i, j>> \in (DOMAIN html) \X (1..5) :
                    /\ i \in Visible(html)
                    /\ j \in DOMAIN html[i].text
                    /\ html[i].text[j] = c})

C18_OnlyVisibleText ==
    \A r \in DOMAIN texts :
        LET t == texts[r]
            shown == Visible(html_content)
        IN  /\ \A c \in {"a", "b", "x", "H", "e", "l", "o"} :
                  Count(t, c) = CountVisible(html_content, c)
            /\ Count(t, " ") = 0
            /\ Count(t, "\n") = IF shown = {} THEN 0 ELSE Cardinality(shown) - 1
            /\ shown # {} =>
                  LET first == CHOOSE i \in shown : \A k \in shown : i <= k
                      words == html_content[first].text
                  IN  t[1] = words[CHOOSE j \in DOMAIN words :
                                      /\ words[j] # " "
                                      /\ \A k \in 1..(j - 1) : words[k] = " "]
            /\ html_content = ScenarioBody => t = <<"H", "e", "l", "l", "o">>

C18_Witness ==
    /\ html_content = ScenarioBody
    /\ texts = <<<<"H", "e", "l", "l", "o">>>>

\* C20: when the project is configured, check_corpus_exists(name) has
\* returned True if a corpus matching name is in the project, and False if
\* none is: a full resource name matches the corpus that bears it, any other
\* name the corpora whose display name or id holds it, in any spelling the
\* lookup tries, whatever the case.
Spellings(corpus_name) ==
    {corpus_name, replace(corpus_name, "_", "-"), replace(corpus_name, "-", "_")}
Matching(corpus_name, corpus) ==
    IF IsResourceName(corpus_name) THEN corpus.name = corpus_name
    ELSE \E spelling \in Spellings(corpus_name) :
             \/ Contains(Strip(lower(spelling)), lower(corpus.display_name))
             \/ Contains(Strip(lower(spelling)), lower(Tail(corpus.name)))

C20_TrueIffCorpusExists ==
    (reply.op = "check_corpus_exists" /\ app_config = ConfigComplete) =>
        (reply.value <=> \E corpus \in Listed : Matching(reply.corpus_name, corpus))

\* C21: when the project is configured, set_current_corpus(name) has
\* returned True only if a corpus matching name is in the project, and then
\* current_corpus is name; a call that returns False leaves current_corpus
\* and every cache entry as they were.
C21_SetsCurrentOnlyIfExists ==
    /\ [](  (reply.op = "set_current_corpus" /\ app_config = ConfigComplete) =>
            /\ reply.value => \E corpus \in Listed : Matching(reply.corpus_name, corpus)
            /\ reply.value => state.current_corpus = reply.corpus_name)
    /\ [][(reply'.op = "set_current_corpus" /\ ~reply'.value) => state' = state]_vars

\* C22: for a name not of full resource-name form and a configured project,
\* get_corpus_resource_name returns the resource name of a listed corpus whose
\* trimmed display name or id equals the trimmed name, whatever the case, if
\* there is one; else that of a corpus whose display name holds the name, if
\* there is one; else that of a corpus whose id holds it, if there is one;
\* else ''. A result other than '' and the name itself is the resource name
\* of a listed corpus.
Asked == Strip(lower(reply.corpus_name))
Exact(corpus) ==
    \/ Strip(lower(corpus.display_name)) = Asked
    \/ lower(Tail(corpus.name)) = Asked
PartialDisplay(corpus) == Contains(Asked, lower(corpus.display_name))
PartialId(corpus) == Contains(Asked, lower(Tail(corpus.name)))
Names(S) == {corpus.name : corpus \in S}

InBrowser(f) == fetch[f].pc \in {"load", "transform"}
InHttp(f) == fetch[f].pc \in {"get", "read"}

C23_HttpEndsBrowserIsWaitedFor ==
    /\ \A f \in Fetches : InHttp(f) ~> Done(f)
    /\ (\A f \in Fetches : InBrowser(f) ~> ~InBrowser(f)) =>
           (\A f \in Fetches : (InBrowser(f) \/ InHttp(f)) ~> Done(f))
    /\ [](\A f \in Fetches :
             fetch[f].chromium_out = "pending" => fetch[f].calls = <<"chromium">>)

\* Not so for the browser path: this does not hold of SpecTimeout, where a
\* fetch can stay at loader.load for ever.
BrowserAlwaysEnds == \A f \in Fetches : InBrowser(f) ~> ~InBrowser(f)

\* the browser failed, the fetch fell back, and the HTTP path ended by its
\* timeout
C23_Witness ==
    \E f \in Fetches :
        /\ fetch[f].pc = "done"
        /\ fetch[f].method = "auto"
        /\ fetch[f].calls = <<"chromium", "aiohttp">>
        /\ fetch[f].aiohttp_out = TimeoutError

\* C24: rag_query has called the retrieval API only for a name its existence
\* check passed, and for a name that no corpus in the project matches it has
\* returned the error 'does not exist' without calling the retrieval API.
C24_NoQueryWithoutCheck ==
    reply.op = "rag_query" =>
        /\ reply.rag_corpus # <<>> => reply.value
        /\ (~\E corpus \in Listed : Matching(reply.corpus_name, corpus)) =>
              /\ reply.status = "error"
              /\ reply.message = DoesNotExist
              /\ reply.rag_corpus = <<>>

\* C27: when the existence check inside rag_query returned True, rag_query
\* has not returned 'Could not get resource name', and the resource name it
\* passed to the retrieval API is the one the check cached for the name.
C27_CheckedNameResolves ==
    (reply.op = "rag_query" /\ reply.value) =>
        /\ reply.message # CouldNotGetResourceName
        /\ reply.rag_corpus # <<>> =>
              reply.rag_corpus = state.corpus_resource[reply.corpus_name]

\* C25: when the command line was run with one action flag, the GCP config
\* and the arguments the flag requires, main has called the operation of
\* that flag and no other; --check_operations has called
\* check_import_operations.
OwnOperation ==
    [flag \in ActionFlags |->
        CASE flag = "create" -> "create"
          [] flag = "delete" -> "delete"
          [] flag = "list" -> "list_deployments"
          [] flag = "create_session" -> "create_session"
          [] flag = "send" -> "send_message"
          [] flag = "create_corpus" -> "create_rag_corpus"
          [] flag = "list_corpora" -> "list_corpora"
          [] flag = "get_corpus" -> "get_corpus_details"
          [] flag = "list_files" -> "list_corpus_files"
          [] flag = "check_operations" -> "check_import_operations"
          [] flag = "reimport" -> "import_document_to_corpus"]

C25_EachFlagRunsItsOperation ==
    (/\ cli.pc = "done"
     /\ cli.flag \in ActionFlags
     /\ cli.config = ConfigItems
     /\ cli.given = StringFlags) =>
        cli.dispatched = <<OwnOperation[cli.flag]>>

\* C26: rag.list_corpora is called only after the aiplatform client listing
\* was called and raised; a result of status 'error' comes only with no
\* project id, a failed initialisation, or both listings failed; list_corpora
\* ends only by returning a result; and every error result has 'corpora'
\* empty.
C26_ClientFirstErrorsOnlyWhenAllFail ==
    /\ listing.pc \in {"idle", "gcloud", "init", "client", "rag", "done"}
    /\ \A i \in DOMAIN listing.calls :
          listing.calls[i] = "rag.list_corpora" =>
              /\ i = 2
              /\ listing.calls[1] = "list_rag_corpora"
              /\ listing.client_error # ""
    /\ listing.pc = "done" <=> listing.result.status \in {"error", "success"}
    /\ listing.result.status = "error" =>
          /\ listing.result.corpora = <<>>
          /\ \/ listing.project_id = "" /\ listing.calls = <<>>
             \/ listing.init_error # "" /\ listing.calls = <<>>
             \/ /\ listing.client_error # ""
                /\ listing.rag_error # ""
                /\ listing.calls = <<"list_rag_corpora", "rag.list_corpora">>
    /\ listing.result.status = "success" =>
          /\ listing.result.corpora = CorpusInfo(corpora)
          /\ listing.rag_error = ""

\* the first listing raised, the second returned the corpora
C26_Witness ==
    /\ listing.pc = "done"
    /\ listing.calls = <<"list_rag_corpora", "rag.list_corpora">>
    /\ listing.result.status = "success"
    /\ listing.result.method = "rag_list_corpora"
    /\ Len(listing.result.corpora) = 2

\* C28: every name whose corpus_exists_ entry is true has a non-empty
\* corpus_resource_ entry, and current_corpus, once set, is a name whose
\* corpus_exists_ entry is true.
C28_CacheIsConsistent ==
    /\ \A X \in CorpusNames :
          X \in state.corpus_exists => state.corpus_resource[X] # <<>>
    /\ state.current_corpus # None => state.current_corpus \in state.corpus_exists

\* set_current_corpus moved current_corpus to a second cached name
C28_Witness ==
    /\ reply.op = "set_current_corpus"
    /\ reply.value
    /\ state.current_corpus = <<"B">>
    /\ state.corpus_exists = {<<"a", "_", "b">>, <<"B">>}

\* C29 as stated: a call of check_corpus_exists leaves a current_corpus that
\* was set as it was.
C29_NeverChangesSetCurrent ==
    [][reply'.op = "check_corpus_exists" =>
          (state.current_corpus # None =>
              state'.current_corpus = state.current_corpus)]_vars

\* C29: a call of check_corpus_exists leaves a current_corpus that was set
\* to a non-empty name as it was; it changes current_corpus only to the name
\* it was called with, on a lookup that succeeded and was not served from
\* the cache, made while current_corpus was unset or the empty string; a
\* cache hit or a failed lookup leaves the whole state as it was.
C29_ChangesOnlyUnsetOrEmptyCurrent ==
    [][reply'.op = "check_corpus_exists" =>
          /\ state.current_corpus \notin {None, <<>>} =>
                state'.current_corpus = state.current_corpus
          /\ state'.current_corpus # state.current_corpus =>
                /\ reply'.value
                /\ reply'.corpus_name \notin state.corpus_exists
                /\ state'.current_corpus = reply'.corpus_name
          /\ (reply'.corpus_name \in state.corpus_exists \/ ~reply'.value) =>
                state' = state]_vars

\* a first successful lookup made the name the current corpus
C29_Witness ==
    /\ reply.op = "check_corpus_exists"
    /\ reply.value
    /\ reply.corpus_name = <<"B">>
    /\ state.current_corpus = <<"B">>
    /\ state.corpus_exists = {<<"B">>}
====
